---- MODULE Spec2Model ----
(***************************************************************************)
(* Kriterion Quant Journal (src/app.py, src/data_manager.py).              *)
(*                                                                         *)
(* The model covers                                                        *)
(*   - the deletion of selected operations by content key                  *)
(*     ("Conferma Cancellazione Selezionate", app.py 654-694), together    *)
(*     with the full-table save and reload it performs;                    *)
(*   - the metrics of the "Metriche" tab: compute_kpi_tables and           *)
(*     compute_monthly_trend (app.py 244-374, 699-757);                    *)
(*   - the two worksheets, the st.cache_data entries of their loaders and  *)
(*     the button handlers of several browser sessions, each handler       *)
(*     entered with the tables its script run loaded (app.py 390-694);     *)
(*   - the sections of one script run in their order, from the connection  *)
(*     of the worksheets to the tabs (app.py 205-516).                     *)
(*                                                                         *)
(* Abstractions: amounts are whole currency units (Int) and a rate is the  *)
(* pair <<numerator, denominator>> of its division; a pandas Timestamp is  *)
(* a record [y, m, d, hm] (hm: minutes after midnight).                    *)
(***************************************************************************)
EXTENDS Integers, Sequences, FiniteSets, TLC

VARIABLES
    \* ---- operation deletion (Journal tab) ----
    sheet,            \* rows of the Operations worksheet (cells as stored)
    username,         \* st.session_state["username"]
    all_data_df,      \* dm.get_all_data(worksheet) of the current script run
    to_delete,        \* rows ticked in the data editor at the last confirmation
    base_df,          \* all_data_df as the last confirmation found it
    final_df,         \* the table the last confirmation handed to save_all_data
    n_dropped,        \* len(indices_to_drop) reported by st.success
    write,            \* outcome of the last save_all_data: "none" | "ok" | "failed"
    again,            \* TRUE when the last confirmation re-applied the previous selection
    \* ---- metrics (Metriche tab) ----
    user_data_df,     \* the owner's operations
    user_tickers_df,  \* the owner's ticker configurations
    kpi_ticker,       \* first table returned by compute_kpi_tables
    kpi_port,         \* second table (one row) returned by compute_kpi_tables
    monthly,          \* table returned by compute_monthly_trend
    pc,               \* position of the script in the Metriche tab
    \* ---- the worksheets and the sessions' button handlers ----
    worksheet,        \* rows of the Operations worksheet (dm.get_google_sheet)
    ws_tickers,       \* rows of the Tickers worksheet (dm.get_tickers_sheet)
    cache_data,       \* st.cache_data entries of get_all_data / get_all_tickers
    session,          \* per browser session: user, widget values, loaded tables
    last_save,        \* the last call of save_all_data / save_all_tickers
    n_saves,          \* number of calls of the two save functions so far
    \* ---- one script run, section by section ----
    run               \* secrets, session_state and position of the script

delVars == <<sheet, username, all_data_df, to_delete, base_df, final_df,
             n_dropped, write, again>>
metVars == <<user_data_df, user_tickers_df, kpi_ticker, kpi_port, monthly, pc>>
appVars == <<worksheet, ws_tickers, cache_data, session, last_save, n_saves>>
vars == <<sheet, username, all_data_df, to_delete, base_df, final_df,
          n_dropped, write, again,
          user_data_df, user_tickers_df, kpi_ticker, kpi_port, monthly, pc,
          worksheet, ws_tickers, cache_data, session, last_save, n_saves, run>>

----------------------------------------------------------------------------
(* Generic helpers                                                         *)

Range(s) == {s[i] : i \in 1..Len(s)}

RECURSIVE SumSeq(_)
SumSeq(s) == IF s = <<>> THEN 0 ELSE Head(s) + SumSeq(Tail(s))

\* all sequences over S of length 0..n
SeqsUpTo(S, n) == UNION {[1..k -> S] : k \in 0..n}

Pad2(n) == IF n < 10 THEN "0" \o ToString(n) ELSE ToString(n)

----------------------------------------------------------------------------
(* Dates: pandas Timestamp / NaT                                           *)

NaT == [y |-> 0, m |-> 0, d |-> 0, hm |-> 0]

Ts(y, m, d, hm) == [y |-> y, m |-> m, d |-> d, hm |-> hm]

IsLeap(y) == (y % 4 = 0 /\ y % 100 # 0) \/ y % 400 = 0

DaysBeforeMonth(y, m) ==
    LET cum == <<0, 31, 59, 90, 120, 151, 181, 212, 243, 273, 304, 334>>
    IN  cum[m] + (IF m > 2 /\ IsLeap(y) THEN 1 ELSE 0)

\* proleptic Gregorian ordinal of a day (datetime.date.toordinal)
Ordinal(ts) ==
    LET y1 == ts.y - 1
    IN  365 * y1 + (y1 \div 4) - (y1 \div 100) + (y1 \div 400)
        + DaysBeforeMonth(ts.y, ts.m) + ts.d

\* Series.dt.strftime("%Y-%m-%d").astype(str): NaT -> NaN -> "nan"
StrfDay(ts) ==
    IF ts = NaT THEN "nan"
    ELSE ToString(ts.y) \o "-" \o Pad2(ts.m) \o "-" \o Pad2(ts.d)

\* the text of a date cell that holds a time of day as well
IsoDateTime(ts) ==
    StrfDay(ts) \o " " \o Pad2(ts.hm \div 60) \o ":" \o Pad2(ts.hm % 60) \o ":00"

----------------------------------------------------------------------------
(* data_manager.py: the Operations worksheet                               *)

\* the strings the model's cells may hold, with their upper-cased and
\* stripped forms (str.upper().str.strip() and str.strip())
UpperStrip(s) ==
    CASE s = " spy " -> "SPY"
      [] s = "qqq"   -> "QQQ"
      [] OTHER       -> s

Strip(s) ==
    CASE s = "Incasso Premio " -> "Incasso Premio"
      [] OTHER                 -> s

\* astype(str) of a cell get_as_dataframe read: an empty cell is NaN -> "nan"
AsStr(cell) == IF cell = "" THEN "nan" ELSE cell

\* the timestamps a date cell of the model can spell
DayDomain == {Ts(2024, 3, 5, 0), Ts(2024, 3, 6, 0)}
TsDomain == {Ts(t.y, t.m, t.d, hm) : t \in DayDomain, hm \in {0, 630}}

CellText(ts) == IF ts.hm = 0 THEN StrfDay(ts) ELSE IsoDateTime(ts)

\* pd.to_datetime(cell, errors="coerce")
ToDatetime(cell) ==
    IF \E ts \in TsDomain : CellText(ts) = cell
    THEN CHOOSE ts \in TsDomain : CellText(ts) = cell
    ELSE NaT

\* get_all_data, one row: typed columns
GetAllDataRow(c) ==
    [username          |-> AsStr(c.username),
     date              |-> ToDatetime(c.date),
     ticker            |-> UpperStrip(AsStr(c.ticker)),
     type              |-> Strip(AsStr(c.type)),
     premioIncassato   |-> c.premioIncassato,
     premioReinvestito |-> c.premioReinvestito,
     btdStandard       |-> c.btdStandard,
     btdBoost          |-> c.btdBoost,
     notes             |-> AsStr(c.notes)]

GetAllData(ws) == [i \in 1..Len(ws) |-> GetAllDataRow(ws[i])]

\* save_all_data, one row: the date is serialised as YYYY-MM-DD, NaT as an
\* empty cell; every other column is written as it is
SaveAllDataRow(r) ==
    [username          |-> r.username,
     date              |-> IF r.date = NaT THEN "" ELSE StrfDay(r.date),
     ticker            |-> r.ticker,
     type              |-> r.type,
     premioIncassato   |-> r.premioIncassato,
     premioReinvestito |-> r.premioReinvestito,
     btdStandard       |-> r.btdStandard,
     btdBoost          |-> r.btdBoost,
     notes             |-> r.notes]

SaveAllData(df) == [i \in 1..Len(df) |-> SaveAllDataRow(df[i])]

----------------------------------------------------------------------------
(* app.py 393-397: the owner's rows, newest first                          *)

\* sort key of sort_values(by="date", ascending=False): NaT goes last
DateRank(ts) == IF ts = NaT THEN -1 ELSE Ordinal(ts) * 1440 + ts.hm

RECURSIVE InsertDesc(_, _)
InsertDesc(r, s) ==
    IF s = <<>> THEN <<r>>
    ELSE IF DateRank(Head(s).date) >= DateRank(r.date)
         THEN <<Head(s)>> \o InsertDesc(r, Tail(s))
         ELSE <<r>> \o s

RECURSIVE SortDateDesc(_)
SortDateDesc(s) ==
    IF s = <<>> THEN <<>>
    ELSE InsertDesc(s[Len(s)], SortDateDesc(SubSeq(s, 1, Len(s) - 1)))

UserData(df, user) ==
    SortDateDesc(SelectSeq(df, LAMBDA r : r.username = user))

----------------------------------------------------------------------------
(* app.py 654-694: Conferma Cancellazione Selezionate                      *)

\* str(float) of an amount held as float64
FloatStr(x) == ToString(x) \o ".0"

\* _normalize, one row. The date and amount columns are already datetime64
\* and float64 in both frames; the text columns are upper-cased / stripped.
NormalizeRow(r) ==
    [r EXCEPT !.ticker = UpperStrip(r.ticker),
              !.type   = Strip(r.type)]

\* a key that leaves the notes column out (not the code's)
MakeKeyNoNotes(r) ==
    r.username \o "|" \o StrfDay(r.date) \o "|" \o r.ticker \o "|" \o r.type \o "|"
    \o FloatStr(r.premioIncassato) \o "|" \o FloatStr(r.premioReinvestito) \o "|"
    \o FloatStr(r.btdStandard) \o "|" \o FloatStr(r.btdBoost)

\* _make_key, one (normalized) row
MakeKey(r) ==
    r.username \o "|" \o StrfDay(r.date) \o "|" \o r.ticker \o "|" \o r.type \o "|"
    \o FloatStr(r.premioIncassato) \o "|" \o FloatStr(r.premioReinvestito) \o "|"
    \o FloatStr(r.btdStandard) \o "|" \o FloatStr(r.btdBoost) \o "|" \o r.notes

\* set(del_norm["_rk"])
KeySet(df) == {MakeKey(NormalizeRow(df[i])) : i \in 1..Len(df)}

\* only the first row of each selected key (not the code's)
IndicesFirstMatch(base, del) ==
    {i \in 1..Len(base) :
        /\ MakeKey(NormalizeRow(base[i])) \in KeySet(del)
        /\ \A j \in 1..(i - 1) :
              MakeKey(NormalizeRow(base[j])) # MakeKey(NormalizeRow(base[i]))}

\* indices_to_drop: the index labels of base_norm whose key is in the set
IndicesToDrop(base, del) ==
    LET keys == KeySet(del)
    IN  {i \in 1..Len(base) : MakeKey(NormalizeRow(base[i])) \in keys}

RECURSIVE DropIndex(_, _, _)
DropIndex(df, idx, i) ==
    IF i > Len(df) THEN <<>>
    ELSE (IF i \in idx THEN <<>> ELSE <<df[i]>>) \o DropIndex(df, idx, i + 1)

\* all_data_df.drop(index=indices_to_drop)
Drop(df, idx) == DropIndex(df, idx, 1)

\* rows of to_delete: edited_df[edited_df["delete"]], in the editor's order
Ticked(view, sel) ==
    LET F[i \in 0..Len(view)] ==
            IF i = 0 THEN <<>>
            ELSE IF i \in sel THEN F[i - 1] \o <<view[i]>> ELSE F[i - 1]
    IN  F[Len(view)]

\* lines 659-694 for the selection del; ok tells whether set_with_dataframe
\* returned (save_all_data catches its exception and returns as well).
\* st.rerun() then loads the table again: after a completed write the
\* caches are cleared and the worksheet is read; after a failed one the
\* worksheet is as it was.
DeleteSelected(del, ok) ==
    LET idx == IndicesToDrop(all_data_df, del)
    IN  /\ to_delete' = del
        /\ base_df' = all_data_df
        /\ final_df' = Drop(all_data_df, idx)
        /\ n_dropped' = Cardinality(idx)
        /\ write' = IF ok THEN "ok" ELSE "failed"
        /\ sheet' = IF ok THEN SaveAllData(final_df') ELSE sheet
        /\ all_data_df' = IF ok THEN GetAllData(sheet') ELSE all_data_df
        /\ UNCHANGED username

\* the button pressed with at least one row ticked
ConfirmDelete ==
    LET view == UserData(all_data_df, username)
    IN  /\ view # <<>>
        /\ \E sel \in SUBSET (1..Len(view)) \ {{}} : \E ok \in BOOLEAN :
              DeleteSelected(Ticked(view, sel), ok)
        /\ again' = FALSE
        /\ UNCHANGED metVars
        /\ UNCHANGED <<appVars, run>>

\* the button pressed with no row ticked: a warning, nothing else (656-657)
ConfirmNothing ==
    /\ UserData(all_data_df, username) # <<>>
    /\ UNCHANGED vars

\* the same selection applied to the table a completed deletion left
ReapplyDelete ==
    /\ write = "ok"
    /\ to_delete # <<>>
    /\ \E ok \in BOOLEAN : DeleteSelected(to_delete, ok)
    /\ again' = TRUE
    /\ UNCHANGED metVars
    /\ UNCHANGED <<appVars, run>>

----------------------------------------------------------------------------
(* The worksheets the deletion is checked on                               *)

MaxRows == 3

Users == {"ann", "bob"}

RawOp(u, d, tk, ty, pi, pr, bs, bb, n) ==
    [username |-> u, date |-> d, ticker |-> tk, type |-> ty,
     premioIncassato |-> pi, premioReinvestito |-> pr,
     btdStandard |-> bs, btdBoost |-> bb, notes |-> n]

RawOps ==
    { RawOp("ann", "2024-03-05", "SPY", "Incasso Premio", 2, 0, 0, 0, ""),
      \* the same operation as the first, spelt differently in the sheet
      RawOp("ann", "2024-03-05 10:30:00", " spy ", "Incasso Premio ", 2, 0, 0, 0, ""),
      \* differs from the first in one column only
      RawOp("ann", "2024-03-05", "SPY", "Incasso Premio", 2, 0, 0, 0, "x"),
      RawOp("bob", "2024-03-05", "SPY", "Incasso Premio", 2, 0, 0, 0, ""),
      RawOp("ann", "2024-03-06", "SPY", "Reinvestimento Premio", 0, 1, 0, 0, ""),
      \* no date
      RawOp("ann", "", "qqq", "Investimento BTD", 0, 0, 2, 1, "") }

\* no browser session is open and no script run is under way
AppIdle ==
    /\ worksheet = <<>>
    /\ ws_tickers = <<>>
    /\ cache_data = <<>>
    /\ session = <<>>
    /\ last_save = <<>>
    /\ n_saves = 0
    /\ run = <<>>

MetricsIdle ==
    /\ user_data_df = <<>>
    /\ user_tickers_df = <<>>
    /\ kpi_ticker = <<>>
    /\ kpi_port = <<>>
    /\ monthly = <<>>
    /\ pc = "idle"

InitDelete ==
    /\ sheet \in SeqsUpTo(RawOps, MaxRows)
    /\ username \in Users
    /\ all_data_df = GetAllData(sheet)
    /\ to_delete = <<>>
    /\ base_df = <<>>
    /\ final_df = <<>>
    /\ n_dropped = 0
    /\ write = "none"
    /\ again = FALSE
    /\ MetricsIdle
    /\ AppIdle

NextDelete == ConfirmDelete \/ ConfirmNothing \/ ReapplyDelete

SpecDelete == InitDelete /\ [][NextDelete]_vars

----------------------------------------------------------------------------
(* app.py 244-357: compute_aggregates, compute_kpi_tables                  *)

\* pd.NA in a rate or day-count column
NA == <<>>

\* a / b as the code evaluates it; a zero denominator is kept visible
Div(a, b) == IF b = 0 THEN <<"division by zero", a, b>> ELSE <<a, b>>

OpsOf(user_ops, tk) == SelectSeq(user_ops, LAMBDA r : r.ticker = tk)

SumCol(ops, col) == SumSeq([i \in 1..Len(ops) |-> ops[i][col]])

\* user_ops.groupby("ticker").agg(sum): one row per ticker that has
\* operations; no row at all for an empty frame (line 245)
compute_aggregates(user_ops) ==
    [tk \in {user_ops[i].ticker : i \in 1..Len(user_ops)} |->
        LET g == OpsOf(user_ops, tk)
        IN  [inc   |-> SumCol(g, "premioIncassato"),
             reinv |-> SumCol(g, "premioReinvestito"),
             std   |-> SumCol(g, "btdStandard"),
             bst   |-> SumCol(g, "btdBoost")]]

\* counts of the BTD rows by their type (not the code's)
CountsByType(g) ==
    [n_ops     |-> Len(g),
     n_inc     |-> Len(SelectSeq(g, LAMBDA r : r.type = "Incasso Premio")),
     n_reinv   |-> Len(SelectSeq(g, LAMBDA r : r.type = "Reinvestimento Premio")),
     n_btd_std |-> Len(SelectSeq(g, LAMBDA r : r.type = "Investimento BTD")),
     n_btd_bst |-> Len(SelectSeq(g, LAMBDA r : r.type = "Investimento BTD"))]

\* lines 277-285: the counts of one ticker that has operations
CountsOf(g) ==
    [n_ops     |-> Len(g),
     n_inc     |-> Len(SelectSeq(g, LAMBDA r : r.type = "Incasso Premio")),
     n_reinv   |-> Len(SelectSeq(g, LAMBDA r : r.type = "Reinvestimento Premio")),
     n_btd_std |-> Len(SelectSeq(g, LAMBDA r : r.btdStandard > 0)),
     n_btd_bst |-> Len(SelectSeq(g, LAMBDA r : r.btdBoost > 0))]

\* lines 291-295: min and max skip NaT; the difference of two NaT is NaT,
\* whose day count is filled with 0
SpanOf(g) ==
    LET dated == {g[i].date : i \in 1..Len(g)} \ {NaT}
        first == IF dated = {} THEN NaT
                 ELSE CHOOSE a \in dated : \A b \in dated : DateRank(a) <= DateRank(b)
        last  == IF dated = {} THEN NaT
                 ELSE CHOOSE a \in dated : \A b \in dated : DateRank(a) >= DateRank(b)
        days  == IF dated = {} THEN 0
                 ELSE (DateRank(last) - DateRank(first)) \div 1440
    IN  [first_date |-> first, last_date |-> last,
         giorni_attivi |-> <<IF days < 0 THEN 0 ELSE days>>]

\* a rate whose guard lets a zero denominator through (not the code's)
RateGuardNonNegative(num, den) == IF den >= 0 THEN Div(num, den) ELSE NA

\* lines 273-274: num / den if den > 0 else pd.NA
Rate(num, den) == IF den > 0 THEN Div(num, den) ELSE NA

\* one row of the merged frame kpi (lines 262-297) for the configuration
\* row c: the left merges fill a ticker without operations with 0 sums,
\* 0 counts, NaT dates and a missing day count

KpiRow(c, user_ops, agg) ==
    LET g     == OpsOf(user_ops, c.ticker)
        has   == c.ticker \in DOMAIN agg
        inc   == IF has THEN agg[c.ticker].inc ELSE 0
        reinv == IF has THEN agg[c.ticker].reinv ELSE 0
        std   == IF has THEN agg[c.ticker].std ELSE 0
        bst   == IF has THEN agg[c.ticker].bst ELSE 0
        invt  == reinv + std + bst
        base  == c.capitaleIniziale + inc
        cnt   == CountsOf(g)
        span  == IF has THEN SpanOf(g)
                 ELSE [first_date |-> NaT, last_date |-> NaT, giorni_attivi |-> NA]
    IN  [Asset                |-> c.ticker,
         CapitaleIniziale     |-> c.capitaleIniziale,
         EntrateTotali        |-> inc,
         PremiReinvestiti     |-> reinv,
         BTDStandard          |-> std,
         BTDBoost             |-> bst,
         InvestitoTotale      |-> invt,
         CashResiduo          |-> base - invt,
         TassoReinvestimento  |-> Rate(reinv, inc),
         Utilization          |-> Rate(invt, base),
         NOperazioni          |-> cnt.n_ops,
         NIncassi             |-> cnt.n_inc,
         NReinvestimenti      |-> cnt.n_reinv,
         NBTDStd              |-> cnt.n_btd_std,
         NBTDBoost            |-> cnt.n_btd_bst,
         PrimoMovimento       |-> span.first_date,
         UltimoMovimento      |-> span.last_date,
         GiorniAttivi         |-> span.giorni_attivi]

\* a table that keeps every configuration row (not the code's)
ShownAll(c) == TRUE

\* line 299: kpi.loc[kpi["attivo"], ...]
Shown(c) == c.attivo

KpiTicker(user_ops, tickers) ==
    LET cfg == SelectSeq(tickers, Shown)
        agg == compute_aggregates(user_ops)
    IN  [i \in 1..Len(cfg) |-> KpiRow(cfg[i], user_ops, agg)]

\* a portfolio rate without the guard (not the code's)
PortRateUnguarded(num, den) == Div(num, den)

\* lines 342-344: a portfolio rate, recomputed from the totals
PortRate(num, den) == IF den > 0 THEN Div(num, den) ELSE NA

\* lines 325-355: the portfolio row
KpiPort(kt) ==
    IF kt = <<>>
    THEN [TickersAttivi |-> 0, CapitaleInizialeTotale |-> 0, EntrateTotali |-> 0,
          InvestitoTotale |-> 0, CashResiduoTotale |-> 0,
          TassoReinvestimentoPortafoglio |-> NA, UtilizationPortafoglio |-> NA,
          OperazioniTotali |-> 0]
    ELSE LET cap0 == SumCol(kt, "CapitaleIniziale")
             entr == SumCol(kt, "EntrateTotali")
             invt == SumCol(kt, "InvestitoTotale")
             cash == SumCol(kt, "CashResiduo")
             nops == SumCol(kt, "NOperazioni")
             rei  == SumCol(kt, "PremiReinvestiti")
         IN  [TickersAttivi |-> Cardinality({kt[i].Asset : i \in 1..Len(kt)}),
              CapitaleInizialeTotale |-> cap0,
              EntrateTotali |-> entr,
              InvestitoTotale |-> invt,
              CashResiduoTotale |-> cash,
              TassoReinvestimentoPortafoglio |-> PortRate(rei, entr),
              UtilizationPortafoglio |-> PortRate(invt, cap0 + entr),
              OperazioniTotali |-> nops]

----------------------------------------------------------------------------
(* app.py 359-374: compute_monthly_trend                                   *)

TrendTail == 12

\* to_period("M").dt.to_timestamp(): the first day of the month; NaT stays
MonthOf(ts) == IF ts = NaT THEN NaT ELSE Ts(ts.y, ts.m, 1, 0)

MonthRank(mo) == mo.y * 12 + mo.m

\* the months in ascending order (groupby sorts its keys; sort_values)
RECURSIVE SortMonths(_)
SortMonths(S) ==
    IF S = {} THEN <<>>
    ELSE LET lo == CHOOSE a \in S : \A b \in S : MonthRank(a) <= MonthRank(b)
         IN  <<lo>> \o SortMonths(S \ {lo})

\* a trend that is never cut (not the code's)
KeepAllRows(s, n) == s

\* line 372: grp.tail(n) when len(grp) > n
TailRows(s, n) == IF Len(s) > n THEN SubSeq(s, Len(s) - n + 1, Len(s)) ELSE s

MonthRow(user_ops, mo) ==
    LET g == SelectSeq(user_ops, LAMBDA r : MonthOf(r.date) = mo)
        rei == SumCol(g, "premioReinvestito")
        std == SumCol(g, "btdStandard")
        bst == SumCol(g, "btdBoost")
    IN  [month           |-> mo,
         Incassi         |-> SumCol(g, "premioIncassato"),
         Reinvestimenti  |-> rei,
         BTDStandard     |-> std,
         BTDBoost        |-> bst,
         InvestitoTotale |-> rei + std + bst]

\* groupby("month") leaves the undated rows out
compute_monthly_trend(user_ops) ==
    LET months == SortMonths({MonthOf(user_ops[i].date) : i \in 1..Len(user_ops)} \ {NaT})
        kept   == TailRows(months, TrendTail)
    IN  [i \in 1..Len(kept) |-> MonthRow(user_ops, kept[i])]

----------------------------------------------------------------------------
(* app.py 699-757: the Metriche tab                                        *)

\* line 702. DataFrame.apply(axis=1) on a frame without rows (no ticker
\* configured) returns, depending on the pandas release, an empty Series or
\* a copy of the frame; assigning the latter to one column raises
\* ValueError, which ends the script run.
CallComputeKpiTables ==
    /\ pc = "kpi"
    /\ \/ /\ kpi_ticker' = KpiTicker(user_data_df, user_tickers_df)
          /\ kpi_port' = KpiPort(kpi_ticker')
          /\ pc' = "trend"
       \/ /\ user_tickers_df = <<>>
          /\ pc' = "raised"
          /\ UNCHANGED <<kpi_ticker, kpi_port>>
    /\ UNCHANGED <<user_data_df, user_tickers_df, monthly>>
    /\ UNCHANGED delVars
    /\ UNCHANGED <<appVars, run>>

\* line 745
CallComputeMonthlyTrend ==
    /\ pc = "trend"
    /\ monthly' = compute_monthly_trend(user_data_df)
    /\ pc' = "done"
    /\ UNCHANGED <<user_data_df, user_tickers_df, kpi_ticker, kpi_port>>
    /\ UNCHANGED delVars
    /\ UNCHANGED <<appVars, run>>

NextMetrics == CallComputeKpiTables \/ CallComputeMonthlyTrend

----------------------------------------------------------------------------
(* The tables the metrics are checked on                                   *)

MaxOps == 3
MaxTickers == 2

Op(ts, tk, ty, pi, pr, bs, bb) ==
    [username |-> "ann", date |-> ts, ticker |-> tk, type |-> ty,
     premioIncassato |-> pi, premioReinvestito |-> pr,
     btdStandard |-> bs, btdBoost |-> bb, notes |-> "nan"]

KpiOps ==
    { Op(Ts(2024, 3, 5, 0),   "SPY", "Incasso Premio", 2, 0, 0, 0),
      Op(Ts(2024, 3, 6, 0),   "SPY", "Reinvestimento Premio", 0, 1, 0, 0),
      Op(Ts(2024, 3, 5, 630), "SPY", "Investimento BTD", 0, 0, 3, 1),
      Op(Ts(2024, 2, 28, 0),  "QQQ", "Incasso Premio", 1, 0, 0, 0),
      Op(NaT,                 "QQQ", "Investimento BTD", 0, 0, 0, 2),
      \* a ticker the owner has not configured
      Op(Ts(2024, 3, 6, 0),   "IWM", "Incasso Premio", 4, 0, 0, 0) }

Cfg(tk, cap, att) == [ticker |-> tk, capitaleIniziale |-> cap, attivo |-> att]

KpiCfgs ==
    { Cfg("SPY", 5, TRUE), Cfg("SPY", 0, TRUE), Cfg("SPY", 5, FALSE),
      Cfg("QQQ", 0, TRUE), Cfg("QQQ", 5, FALSE), Cfg("AAPL", 500, TRUE) }

DeleteIdle ==
    /\ sheet = <<>>
    /\ username = "ann"
    /\ all_data_df = <<>>
    /\ to_delete = <<>>
    /\ base_df = <<>>
    /\ final_df = <<>>
    /\ n_dropped = 0
    /\ write = "none"
    /\ again = FALSE

\* the Metriche tab is entered with the owner's rows, newest first, and
\* the owner's ticker configurations
InitKpi ==
    /\ DeleteIdle
    /\ AppIdle
    /\ user_data_df \in {SortDateDesc(s) : s \in SeqsUpTo(KpiOps, MaxOps)}
    /\ user_tickers_df \in SeqsUpTo(KpiCfgs, MaxTickers)
    /\ kpi_ticker = <<>>
    /\ kpi_port = <<>>
    /\ monthly = <<>>
    /\ pc = "kpi"

SpecKpi == InitKpi /\ [][NextMetrics]_vars

\* a ledger over MonthSpan consecutive months from June 2023: month k holds
\* one operation, every third month a second one, and the first month an
\* undated row as well
MonthSpan == 14

LedgerMonth(k) ==
    LET y  == 2023 + ((5 + k) \div 12)
        mo == ((5 + k) % 12) + 1
    IN  <<Op(Ts(y, mo, 15, 0), "SPY", "Investimento BTD", 0, 0, 1 + (k % 2), k % 3)>>
        \o (IF k % 3 = 0
            THEN <<Op(Ts(y, mo, 3, 630), "SPY", "Reinvestimento Premio", 0, 2, 0, 0)>>
            ELSE <<>>)
        \o (IF k = 0
            THEN <<Op(NaT, "SPY", "Incasso Premio", 7, 0, 0, 0)>>
            ELSE <<>>)

RECURSIVE LedgerOf(_, _)
LedgerOf(M, k) ==
    IF k >= MonthSpan THEN <<>>
    ELSE (IF k \in M THEN LedgerMonth(k) ELSE <<>>) \o LedgerOf(M, k + 1)

InitTrend ==
    /\ DeleteIdle
    /\ AppIdle
    /\ user_data_df \in {SortDateDesc(LedgerOf(M, 0)) : M \in SUBSET (0..(MonthSpan - 1))}
    /\ user_tickers_df \in {<<>>, <<Cfg("SPY", 5, TRUE)>>}
    /\ kpi_ticker = <<>>
    /\ kpi_port = <<>>
    /\ monthly = <<>>
    /\ pc = "kpi"

SpecTrend == InitTrend /\ [][NextMetrics]_vars

----------------------------------------------------------------------------
(* Deletion: properties                                                    *)

\* two rows are the same operation: equal owner, calendar day (or both
\* undated), ticker, type, amounts and notes, each column as normalized
SameDay(a, b) == a.y = b.y /\ a.m = b.m /\ a.d = b.d

SameOperation(r, s) ==
    LET a == NormalizeRow(r)
        b == NormalizeRow(s)
    IN  /\ a.username = b.username
        /\ SameDay(a.date, b.date)
        /\ a.ticker = b.ticker
        /\ a.type = b.type
        /\ a.premioIncassato = b.premioIncassato
        /\ a.premioReinvestito = b.premioReinvestito
        /\ a.btdStandard = b.btdStandard
        /\ a.btdBoost = b.btdBoost
        /\ a.notes = b.notes

Selected(r) == \E k \in 1..Len(to_delete) : SameOperation(r, to_delete[k])

\* C1: the table handed to the write is the loaded table without the rows
\* that are the same operation as a selected row, the other rows kept as they
\* were and in their order; the reported count is the number of rows removed;
\* a completed write leaves exactly that table in the worksheet.
C1_DeletionIsKeyMatch ==
    write # "none" =>
        /\ final_df = SelectSeq(base_df, LAMBDA r : ~Selected(r))
        /\ n_dropped = Len(base_df) - Len(final_df)
        /\ (write = "ok" => sheet = SaveAllData(final_df))

\* a deletion that removed some rows and kept others, one of them a row
\* that differs from a removed row in its notes only
C1_Witness ==
    /\ write = "ok"
    /\ ~again
    /\ n_dropped >= 1
    /\ \E i \in 1..Len(final_df) : \E k \in 1..Len(to_delete) :
          /\ final_df[i].notes # to_delete[k].notes
          /\ SameOperation([final_df[i] EXCEPT !.notes = to_delete[k].notes],
                           to_delete[k])

\* rows of base_df that are the same operation as row r
Copies(r) == {i \in 1..Len(base_df) : SameOperation(base_df[i], r)}

\* C2: when one row is selected and the loaded table holds two rows that
\* normalize to its key, both are removed and the reported count is 2.
C2_BothCopiesRemoved ==
    (write # "none" /\ Len(to_delete) = 1 /\ Cardinality(Copies(to_delete[1])) = 2) =>
        /\ n_dropped = 2
        /\ Len(final_df) = Len(base_df) - 2
        /\ \A i \in 1..Len(final_df) : ~SameOperation(final_df[i], to_delete[1])
        /\ (write = "ok" =>
               \A i \in 1..Len(sheet) :
                   ~SameOperation(GetAllDataRow(sheet[i]), to_delete[1]))

\* one copy ticked by the user, two copies in the table, the write completed
C2_Witness ==
    /\ write = "ok"
    /\ ~again
    /\ Len(to_delete) = 1
    /\ Cardinality(Copies(to_delete[1])) = 2
    /\ n_dropped = 2

\* C3: the selection of a completed deletion applied again to the table
\* that deletion left removes nothing; and a selection none of whose rows is
\* in the table removes nothing, leaves the table as it was and reports 0.
C3_DeletionIdempotent ==
    /\ (again => n_dropped = 0 /\ final_df = base_df)
    /\ (write # "none" /\ (\A i \in 1..Len(base_df) : ~Selected(base_df[i])) =>
           /\ n_dropped = 0
           /\ final_df = base_df
           /\ (write = "ok" => all_data_df = base_df /\ sheet = SaveAllData(base_df)))

\* a second application of a selection that had removed rows, on a table
\* that still holds rows
C3_Witness ==
    /\ again
    /\ write = "ok"
    /\ to_delete # <<>>
    /\ base_df # <<>>
    /\ n_dropped = 0

----------------------------------------------------------------------------
(* Metrics: properties                                                     *)

KpiComputed == pc \in {"trend", "done"}

\* the sum of one column over the operations of ticker tk
TotalOf(col, tk) ==
    SumSeq([i \in 1..Len(user_data_df) |->
               IF user_data_df[i].ticker = tk THEN user_data_df[i][col] ELSE 0])

InvestedOf(tk) ==
    TotalOf("premioReinvestito", tk) + TotalOf("btdStandard", tk) + TotalOf("btdBoost", tk)

NumOpsOf(tk) == Cardinality({i \in 1..Len(user_data_df) : user_data_df[i].ticker = tk})

ActiveCfgs == SelectSeq(user_tickers_df, LAMBDA c : c.attivo = TRUE)

IsDivByZero(rate) == Len(rate) = 3

\* C4: every per-ticker row has totalInvested = reinvested + btdStandard +
\* btdBoost (sums over the ticker's operations), residualCash =
\* (initialCapital + premiumCollected) - totalInvested without clamping,
\* reinvestmentRate = reinvested / collected iff collected > 0, utilization =
\* totalInvested / fundedBase iff fundedBase > 0, both undefined otherwise,
\* and no division by zero is evaluated.
C4_PerTickerFormulas ==
    KpiComputed =>
        \A i \in 1..Len(kpi_ticker) :
            LET r    == kpi_ticker[i]
                inc  == TotalOf("premioIncassato", r.Asset)
                invt == InvestedOf(r.Asset)
                base == r.CapitaleIniziale + inc
            IN  /\ r.EntrateTotali = inc
                /\ r.PremiReinvestiti = TotalOf("premioReinvestito", r.Asset)
                /\ r.BTDStandard = TotalOf("btdStandard", r.Asset)
                /\ r.BTDBoost = TotalOf("btdBoost", r.Asset)
                /\ r.InvestitoTotale = invt
                /\ r.CashResiduo = base - invt
                /\ r.TassoReinvestimento =
                       (IF inc > 0 THEN <<r.PremiReinvestiti, inc>> ELSE NA)
                /\ r.Utilization = (IF base > 0 THEN <<invt, base>> ELSE NA)
                /\ ~IsDivByZero(r.TassoReinvestimento)
                /\ ~IsDivByZero(r.Utilization)

\* an over-invested ticker (negative residual cash) that collected premium
\* and reinvested none: its rate is 0 / collected
C4_Witness ==
    /\ KpiComputed
    /\ \E i \in 1..Len(kpi_ticker) :
          /\ kpi_ticker[i].CashResiduo < 0
          /\ kpi_ticker[i].EntrateTotali > 0
          /\ kpi_ticker[i].TassoReinvestimento = <<0, kpi_ticker[i].EntrateTotali>>
          /\ kpi_ticker[i].Utilization # NA

RowIsZero(r) ==
    /\ r.EntrateTotali = 0 /\ r.PremiReinvestiti = 0
    /\ r.BTDStandard = 0 /\ r.BTDBoost = 0 /\ r.InvestitoTotale = 0
    /\ r.NOperazioni = 0 /\ r.NIncassi = 0 /\ r.NReinvestimenti = 0
    /\ r.NBTDStd = 0 /\ r.NBTDBoost = 0

\* C5 as stated: with no operations every per-ticker row has zero sums and
\* counts, residual cash = initial capital, BOTH rates undefined, and the
\* trend table is empty.
C5_EmptyOpsBothRatesUndefined ==
    (pc = "done" /\ user_data_df = <<>>) =>
        /\ monthly = <<>>
        /\ \A i \in 1..Len(kpi_ticker) :
              /\ RowIsZero(kpi_ticker[i])
              /\ kpi_ticker[i].CashResiduo = kpi_ticker[i].CapitaleIniziale
              /\ kpi_ticker[i].TassoReinvestimento = NA
              /\ kpi_ticker[i].Utilization = NA

\* C5 amended: with no operations every per-ticker row has zero sums and
\* counts, residual cash = initial capital, an undefined reinvestment rate,
\* and a utilization of 0 / initialCapital when initialCapital > 0, undefined
\* only when initialCapital <= 0; the trend table is empty.
C5_EmptyOps ==
    (pc = "done" /\ user_data_df = <<>>) =>
        /\ monthly = <<>>
        /\ \A i \in 1..Len(kpi_ticker) :
              LET r == kpi_ticker[i]
              IN  /\ RowIsZero(r)
                  /\ r.CashResiduo = r.CapitaleIniziale
                  /\ r.TassoReinvestimento = NA
                  /\ r.Utilization = (IF r.CapitaleIniziale > 0
                                      THEN <<0, r.CapitaleIniziale>> ELSE NA)

\* the scenario of the specification: no operations, AAPL with capital 500
C5_Witness ==
    /\ pc = "done"
    /\ user_data_df = <<>>
    /\ user_tickers_df = <<Cfg("AAPL", 500, TRUE)>>
    /\ Len(kpi_ticker) = 1
    /\ kpi_ticker[1].Utilization = <<0, 500>>

\* C6: the per-ticker table has one row per configuration row with
\* attivo = TRUE, in their order, none for an inactive row; a ticker
\* without operations appears with zero sums.
C6_ExactlyActiveTickers ==
    KpiComputed =>
        /\ Len(kpi_ticker) = Len(ActiveCfgs)
        /\ \A i \in 1..Len(kpi_ticker) :
              /\ kpi_ticker[i].Asset = ActiveCfgs[i].ticker
              /\ kpi_ticker[i].CapitaleIniziale = ActiveCfgs[i].capitaleIniziale
              /\ (NumOpsOf(kpi_ticker[i].Asset) = 0 => RowIsZero(kpi_ticker[i]))

\* operations exist, an active ticker has none of them, another
\* configuration row is inactive
C6_Witness ==
    /\ KpiComputed
    /\ user_data_df # <<>>
    /\ \E i \in 1..Len(kpi_ticker) :
          NumOpsOf(kpi_ticker[i].Asset) = 0 /\ kpi_ticker[i].InvestitoTotale = 0
    /\ \E j \in 1..Len(user_tickers_df) :
          /\ ~user_tickers_df[j].attivo
          /\ NumOpsOf(user_tickers_df[j].ticker) > 0

SumOver(cfgs, f(_)) == SumSeq([i \in 1..Len(cfgs) |-> f(cfgs[i])])

\* C7 as stated: a configuration row with initialCapital <= 0 or
\* attivo = FALSE has no per-ticker row and no share in the portfolio row.
FundedCfgs ==
    SelectSeq(user_tickers_df, LAMBDA c : c.attivo = TRUE /\ c.capitaleIniziale > 0)

C7_ZeroCapitalOrInactiveExcluded ==
    KpiComputed =>
        /\ Len(kpi_ticker) = Len(FundedCfgs)
        /\ \A i \in 1..Len(kpi_ticker) : kpi_ticker[i].CapitaleIniziale > 0
        /\ kpi_port.OperazioniTotali = SumOver(FundedCfgs, LAMBDA c : NumOpsOf(c.ticker))

\* C7 amended: a configuration row with attivo = FALSE has no per-ticker row
\* and no share in the portfolio row, whatever its capital; a row with
\* attivo = TRUE and initialCapital <= 0 has its per-ticker row and its
\* share like any other active row; computing the metrics leaves the rows of
\* the ticker table as they were.
C7_InactiveExcluded ==
    /\ [](KpiComputed =>
            /\ Len(kpi_ticker) = Len(ActiveCfgs)
            /\ \A i \in 1..Len(kpi_ticker) :
                  /\ kpi_ticker[i].Asset = ActiveCfgs[i].ticker
                  /\ kpi_ticker[i].CapitaleIniziale = ActiveCfgs[i].capitaleIniziale
            /\ kpi_port.CapitaleInizialeTotale =
                   SumOver(ActiveCfgs, LAMBDA c : c.capitaleIniziale)
            /\ kpi_port.OperazioniTotali =
                   SumOver(ActiveCfgs, LAMBDA c : NumOpsOf(c.ticker))
            /\ kpi_port.InvestitoTotale =
                   SumOver(ActiveCfgs, LAMBDA c : InvestedOf(c.ticker)))
    /\ [][user_tickers_df' = user_tickers_df]_vars

\* an inactive row with capital and operations beside an active row with
\* capital 0 and operations: the first is left out, the second is shown
C7_Witness ==
    /\ KpiComputed
    /\ \E j \in 1..Len(user_tickers_df) :
          /\ ~user_tickers_df[j].attivo
          /\ user_tickers_df[j].capitaleIniziale > 0
          /\ NumOpsOf(user_tickers_df[j].ticker) > 0
    /\ \E i \in 1..Len(kpi_ticker) :
          /\ kpi_ticker[i].CapitaleIniziale <= 0
          /\ kpi_ticker[i].NOperazioni > 0
    /\ kpi_port.OperazioniTotali > 0

\* C8: each portfolio total is the sum of the per-ticker value over the
\* active configuration rows only; the two portfolio rates are recomputed
\* from the totals (sum reinvested / sum collected, sum invested /
\* (sum capital + sum collected)) and are undefined when that denominator is
\* not > 0.
C8_PortfolioFromActiveTotals ==
    KpiComputed =>
        LET cap  == SumOver(ActiveCfgs, LAMBDA c : c.capitaleIniziale)
            inc  == SumOver(ActiveCfgs, LAMBDA c : TotalOf("premioIncassato", c.ticker))
            rei  == SumOver(ActiveCfgs, LAMBDA c : TotalOf("premioReinvestito", c.ticker))
            invt == SumOver(ActiveCfgs, LAMBDA c : InvestedOf(c.ticker))
            nops == SumOver(ActiveCfgs, LAMBDA c : NumOpsOf(c.ticker))
        IN  /\ kpi_port.CapitaleInizialeTotale = cap
            /\ kpi_port.EntrateTotali = inc
            /\ kpi_port.InvestitoTotale = invt
            /\ kpi_port.CashResiduoTotale = cap + inc - invt
            /\ kpi_port.OperazioniTotali = nops
            /\ kpi_port.InvestitoTotale =
                   SumSeq([i \in 1..Len(kpi_ticker) |-> kpi_ticker[i].InvestitoTotale])
            /\ kpi_port.CashResiduoTotale =
                   SumSeq([i \in 1..Len(kpi_ticker) |-> kpi_ticker[i].CashResiduo])
            /\ kpi_port.TassoReinvestimentoPortafoglio =
                   (IF inc > 0 THEN <<rei, inc>> ELSE NA)
            /\ kpi_port.UtilizationPortafoglio =
                   (IF cap + inc > 0 THEN <<invt, cap + inc>> ELSE NA)

\* two active tickers with different defined rates: the portfolio rate N / D
\* differs from the average of n1 / d1 and n2 / d2
C8_Witness ==
    /\ KpiComputed
    /\ Len(kpi_ticker) = 2
    /\ kpi_ticker[1].TassoReinvestimento # NA
    /\ kpi_ticker[2].TassoReinvestimento # NA
    /\ kpi_port.TassoReinvestimentoPortafoglio # NA
    /\ LET a == kpi_ticker[1].TassoReinvestimento
           b == kpi_ticker[2].TassoReinvestimento
           p == kpi_port.TassoReinvestimentoPortafoglio
       IN  p[1] * 2 * a[2] * b[2] # p[2] * (a[1] * b[2] + b[1] * a[2])

----------------------------------------------------------------------------
(* Monthly trend: properties                                               *)

\* the calendar months (as year * 12 + month) that hold a dated operation
OpMonths ==
    {user_data_df[i].date.y * 12 + user_data_df[i].date.m :
        i \in {j \in 1..Len(user_data_df) : user_data_df[j].date # NaT}}

MonthTotal(col, rank) ==
    SumSeq([i \in 1..Len(user_data_df) |->
               IF /\ user_data_df[i].date # NaT
                  /\ user_data_df[i].date.y * 12 + user_data_df[i].date.m = rank
               THEN user_data_df[i][col] ELSE 0])

RowRank(r) == r.month.y * 12 + r.month.m

\* C9: the trend table has at most 12 rows, strictly ascending by month, one
\* row for each of the latest (at most 12) calendar months that hold a dated
\* operation, and each row's totalInvested is that month's reinvested +
\* btdStandard + btdBoost.
C9_TrendShape ==
    pc = "done" =>
        /\ Len(monthly) <= 12
        /\ Len(monthly) = (IF Cardinality(OpMonths) > 12 THEN 12 ELSE Cardinality(OpMonths))
        /\ \A i \in 1..Len(monthly) :
              /\ RowRank(monthly[i]) \in OpMonths
              /\ monthly[i].month.d = 1
              /\ i > 1 => RowRank(monthly[i - 1]) < RowRank(monthly[i])
              /\ \A k \in OpMonths :
                    (k > RowRank(monthly[i]) => \E j \in 1..Len(monthly) : RowRank(monthly[j]) = k)
              /\ monthly[i].Incassi = MonthTotal("premioIncassato", RowRank(monthly[i]))
              /\ monthly[i].Reinvestimenti = MonthTotal("premioReinvestito", RowRank(monthly[i]))
              /\ monthly[i].InvestitoTotale =
                     MonthTotal("premioReinvestito", RowRank(monthly[i]))
                     + MonthTotal("btdStandard", RowRank(monthly[i]))
                     + MonthTotal("btdBoost", RowRank(monthly[i]))

\* more than 12 months with operations, not contiguous, an undated row among
\* the operations: 12 rows are kept
C9_Witness ==
    /\ pc = "done"
    /\ Cardinality(OpMonths) > 12
    /\ Len(monthly) = 12
    /\ \E i \in 1..Len(user_data_df) : user_data_df[i].date = NaT
    /\ \E i \in 2..Len(monthly) : RowRank(monthly[i]) > RowRank(monthly[i - 1]) + 1

\* C10 as stated: every month of the trend table lies within the 12
\* consecutive calendar months that end at the month of the latest dated
\* operation.
C10_WithinTwelveCalendarMonths ==
    pc = "done" =>
        \A i \in 1..Len(monthly) : \A k \in OpMonths :
            k - RowRank(monthly[i]) <= 11

----------------------------------------------------------------------------
(* data_manager.py 186-238: the Tickers worksheet. The column created_at   *)
(* takes part in no handler and is left out.                               *)

\* str.strip().str.lower() of the texts an attivo cell of the model holds
LowerStrip(s) ==
    CASE s = "TRUE"  -> "true"
      [] s = "FALSE" -> "false"
      [] s = " Yes " -> "yes"
      [] OTHER       -> s

\* line 213: the common spellings of true
ParseAttivo(cell) == LowerStrip(AsStr(cell)) \in {"true", "1", "yes", "y", "t"}

\* get_all_tickers, one row: typed columns
GetAllTickersRow(c) ==
    [username         |-> AsStr(c.username),
     ticker           |-> UpperStrip(AsStr(c.ticker)),
     capitaleIniziale |-> c.capitaleIniziale,
     descrizione      |-> AsStr(c.descrizione),
     attivo           |-> ParseAttivo(c.attivo),
     notes            |-> AsStr(c.notes)]

GetAllTickers(ws) == [i \in 1..Len(ws) |-> GetAllTickersRow(ws[i])]

\* save_all_tickers, one row: a boolean is stored as TRUE / FALSE, every
\* other column as it is
SaveAllTickersRow(r) ==
    [username         |-> r.username,
     ticker           |-> r.ticker,
     capitaleIniziale |-> r.capitaleIniziale,
     descrizione      |-> r.descrizione,
     attivo           |-> IF r.attivo THEN "TRUE" ELSE "FALSE",
     notes            |-> r.notes]

SaveAllTickers(df) == [i \in 1..Len(df) |-> SaveAllTickersRow(df[i])]

----------------------------------------------------------------------------
(* data_manager.py 122, 186: @st.cache_data(ttl=60). One entry per loader  *)
(* (the worksheet argument is not hashed); the entries are shared by all   *)
(* sessions. at is the value of n_saves when the entry was stored.         *)

NoEntry == [hit |-> FALSE, df |-> <<>>, at |-> 0]

\* st.cache_data.clear()
EmptyCache == [ops |-> NoEntry, tk |-> NoEntry]

\* dm.get_all_data(worksheet): the stored table if there is one
CachedGetAllData ==
    IF cache_data.ops.hit THEN cache_data.ops.df ELSE GetAllData(worksheet)

\* dm.get_all_tickers(ws_tickers)
CachedGetAllTickers ==
    IF cache_data.tk.hit THEN cache_data.tk.df ELSE GetAllTickers(ws_tickers)

\* the entries after both loaders were called (app.py 390-391)
CacheAfterLoad ==
    [ops |-> IF cache_data.ops.hit THEN cache_data.ops
             ELSE [hit |-> TRUE, df |-> GetAllData(worksheet), at |-> n_saves],
     tk  |-> IF cache_data.tk.hit THEN cache_data.tk
             ELSE [hit |-> TRUE, df |-> GetAllTickers(ws_tickers), at |-> n_saves]]

\* lines 159-180 and 220-238: the entries after a save call. The two
\* clear() calls follow set_with_dataframe inside the try block: they are
\* skipped when it raises.
CacheAfterSave(ok) == IF ok THEN EmptyCache ELSE cache_data

----------------------------------------------------------------------------
(* app.py 398-488: the handlers of the Portafoglio tab, as functions of    *)
(* the tables the script run loaded                                        *)

\* line 398
UserTickers(df, user) == SelectSeq(df, LAMBDA r : r.username = user)

\* an upsert that always appends (not the code's)
UpsertAppend(df, user, tk, cap, descr, act) ==
    df \o <<[username |-> user, ticker |-> tk, capitaleIniziale |-> cap,
             descrizione |-> descr, attivo |-> act, notes |-> ""]>>

\* lines 421-437, "Salva ticker": the rows of (user, tk) are updated in
\* place; without such a row one is appended
Upsert(df, user, tk, cap, descr, act) ==
    IF \E i \in 1..Len(df) : df[i].username = user /\ df[i].ticker = tk
    THEN [i \in 1..Len(df) |->
            IF df[i].username = user /\ df[i].ticker = tk
            THEN [df[i] EXCEPT !.capitaleIniziale = cap,
                               !.descrizione = descr,
                               !.attivo = act]
            ELSE df[i]]
    ELSE df \o <<[username |-> user, ticker |-> tk, capitaleIniziale |-> cap,
                  descrizione |-> descr, attivo |-> act, notes |-> ""]>>

\* lines 470-474, "Cancella selezionati": the rows whose (username, ticker)
\* is the one of a ticked row
DeleteMask(df, to_del) ==
    {i \in 1..Len(df) :
        \E j \in 1..Len(to_del) :
            df[i].username = to_del[j].username /\ df[i].ticker = to_del[j].ticker}

\* line 475: all_tickers_df[~mask]
Kept(df, to_del) == Drop(df, DeleteMask(df, to_del))

\* the editor's rows after one edit of the capital and the active flag of
\* row pos (pos = 0: nothing edited); the ticker column is disabled
EditedTk(view, pos, cap, act) ==
    [i \in 1..Len(view) |->
        IF i = pos THEN [view[i] EXCEPT !.capitaleIniziale = cap, !.attivo = act]
        ELSE view[i]]

\* lines 482-485, "Salva modifiche": the user's rows with an edited ticker
\* are replaced by the editor's rows, which go last
Merged(df, user, upd) ==
    SelectSeq(df, LAMBDA r :
        ~(r.username = user /\ r.ticker \in {upd[j].ticker : j \in 1..Len(upd)}))
    \o upd

----------------------------------------------------------------------------
(* app.py 556-634: the operation form                                      *)

Placeholder == "- Seleziona -"

\* every ticker of the user, whatever its flag and capital (not the code's)
AnyOwnTicker(tk_df, user) ==
    {tk_df[i].ticker : i \in {j \in 1..Len(tk_df) : tk_df[j].username = user}}

\* lines 562-570: the user's tickers that are active with a capital > 0,
\* without duplicates (sorted(...unique()))
ValidTickers(tk_df, user) ==
    {tk_df[i].ticker : i \in {j \in 1..Len(tk_df) :
        /\ tk_df[j].username = user
        /\ tk_df[j].attivo = TRUE
        /\ tk_df[j].capitaleIniziale > 0}}

\* line 585
TickerOptions(tk_df, user) == {Placeholder} \cup ValidTickers(tk_df, user)

\* lines 613-629: only the amounts of the selected type are read
NewRow(user, w) ==
    [username          |-> user,
     date              |-> w.op_date,
     ticker            |-> UpperStrip(w.op_ticker),
     type              |-> w.op_type,
     premioIncassato   |-> IF w.op_type = "Incasso Premio" THEN w.premio_incassato ELSE 0,
     premioReinvestito |-> IF w.op_type = "Reinvestimento Premio"
                           THEN w.premio_reinvestito ELSE 0,
     btdStandard       |-> IF w.op_type = "Investimento BTD" THEN w.btd_standard ELSE 0,
     btdBoost          |-> IF w.op_type = "Investimento BTD" THEN w.btd_boost ELSE 0,
     notes             |-> w.op_notes]

\* a form that stores nothing (not the code's)
ConcatNothing(df, row) == df

\* line 631: pd.concat([all_data_df, pd.DataFrame([new_row])])
Concat(df, row) == df \o <<row>>

----------------------------------------------------------------------------
(* app.py 390-694: browser sessions. A press of a button starts a script   *)
(* run of its session with the widget values of that moment: the run loads *)
(* the two tables (LoadTables) and then reaches the handler of the button. *)
(* Runs of different sessions interleave between the two steps.            *)

Sessions == {"s1", "s2"}

MaxSaves == 1

\* the widget values sent with a run in which no button is pressed; the
\* number inputs of the types not selected keep what was typed before
NoWidgets ==
    [button |-> "none",
     new_ticker |-> "", new_cap |-> 0, new_descr |-> "", new_active |-> TRUE,
     sel |-> {}, edit_pos |-> 0, edit_cap |-> 0, edit_act |-> TRUE,
     op_type |-> "Incasso Premio", op_ticker |-> Placeholder,
     op_date |-> Ts(2024, 3, 6, 0), op_notes |-> "",
     premio_incassato |-> 2, premio_reinvestito |-> 1,
     btd_standard |-> 3, btd_boost |-> 1]

\* line 411: st.text_input("Ticker").upper().strip()
TickerTyped == {"", " spy ", "qqq"}

SalvaTickerWidgets ==
    {[NoWidgets EXCEPT !.button = "Salva ticker"]}
    \cup {[NoWidgets EXCEPT !.button = "Salva ticker", !.new_ticker = UpperStrip(t),
                            !.new_cap = e[1], !.new_active = e[2]] :
             t \in TickerTyped \ {""}, e \in {<<5, TRUE>>, <<0, FALSE>>}}

\* the two buttons under the ticker editor exist when the user has tickers
TickerEditorWidgets(tk_df, user) ==
    LET n == Len(UserTickers(tk_df, user))
    IN  IF n = 0 THEN {}
        ELSE {[NoWidgets EXCEPT !.button = "Cancella selezionati", !.sel = x] :
                 x \in SUBSET (1..n)}
             \cup {[NoWidgets EXCEPT !.button = "Salva modifiche", !.edit_pos = i,
                                     !.edit_cap = 0, !.edit_act = FALSE] : i \in 1..n}
             \cup {[NoWidgets EXCEPT !.button = "Salva modifiche"]}

\* line 605: the submit button is disabled without a valid ticker
FormWidgets(tk_df, user) ==
    IF ValidTickers(tk_df, user) = {} THEN {}
    ELSE LET base == {[NoWidgets EXCEPT !.button = "Registra Operazione",
                                        !.op_ticker = t] :
                         t \in TickerOptions(tk_df, user)}
         IN  {[b EXCEPT !.op_type = "Incasso Premio", !.premio_incassato = a[1],
                        !.op_notes = a[2]] :
                 b \in base, a \in {<<0, "">>, <<2, "x">>}}
             \cup {[b EXCEPT !.op_type = "Reinvestimento Premio"] : b \in base}
             \cup {[b EXCEPT !.op_type = "Investimento BTD"] : b \in base}

\* line 638: the register exists when the user has operations
RegisterWidgets(ops_df, user) ==
    LET n == Len(UserData(ops_df, user))
    IN  IF n = 0 THEN {}
        ELSE {[NoWidgets EXCEPT !.button = "Conferma Cancellazione", !.sel = x] :
                 x \in SUBSET (1..n)}

Widgets(ops_df, tk_df, user) ==
    {NoWidgets} \cup SalvaTickerWidgets \cup TickerEditorWidgets(tk_df, user)
    \cup FormWidgets(tk_df, user) \cup RegisterWidgets(ops_df, user)

\* the deletion and metrics variables and the script run stay as they are
OthersIdle == UNCHANGED <<delVars, metVars, run>>

\* a session between two script runs: the variables of the last run are
\* gone, what it displayed stays on the page
NewSession(user) ==
    [username |-> user, pc |-> "idle", w |-> NoWidgets, notice |-> "none",
     metrics |-> "none", all_data_df |-> <<>>, all_tickers_df |-> <<>>]

\* lines 390-398 of a run of session s started with the widget values w
LoadTables(s) ==
    /\ session[s].pc = "idle"
    /\ n_saves < MaxSaves
    /\ \E w \in Widgets(CachedGetAllData, CachedGetAllTickers, session[s].username) :
          session' = [session EXCEPT ![s] =
                         [@ EXCEPT !.pc = "loaded", !.w = w, !.notice = "none",
                                   !.metrics = "none",
                                   !.all_data_df = CachedGetAllData,
                                   !.all_tickers_df = CachedGetAllTickers]]
    /\ cache_data' = CacheAfterLoad
    /\ UNCHANGED <<worksheet, ws_tickers, last_save, n_saves>>
    /\ OthersIdle

\* dm.save_all_data / dm.save_all_tickers called by session s with df; ok
\* tells whether set_with_dataframe returned. The exception of a failed
\* write is caught inside (lines 179-180, 237-238).
SaveCall(s, fn, df, ok) ==
    /\ worksheet' = IF fn = "save_all_data" /\ ok THEN SaveAllData(df) ELSE worksheet
    /\ ws_tickers' = IF fn = "save_all_tickers" /\ ok THEN SaveAllTickers(df)
                     ELSE ws_tickers
    /\ cache_data' = CacheAfterSave(ok)
    /\ n_saves' = n_saves + 1
    /\ last_save' = [fn |-> fn, by |-> s, button |-> session[s].w.button,
                     loaded |-> IF fn = "save_all_data" THEN session[s].all_data_df
                                ELSE session[s].all_tickers_df,
                     df |-> df, ok |-> ok,
                     ops_before |-> worksheet, tk_before |-> ws_tickers]

\* the handler ends with st.success and st.rerun(): the run is over
Rerun(s) ==
    session' = [session EXCEPT ![s] =
                   [NewSession(session[s].username) EXCEPT !.notice = "success"]]

\* no st.rerun(): the message msg is shown and the script goes on to the
\* end of the Metriche tab. compute_kpi_tables on a frame without rows (no
\* ticker of the user) returns or raises, depending on the pandas release.
RenderRest(s, msg) ==
    LET u   == session[s].username
        utk == UserTickers(session[s].all_tickers_df, u)
    IN  \E m \in (IF utk = <<>> THEN {"rendered", "raised"} ELSE {"rendered"}) :
            session' = [session EXCEPT ![s] =
                           [NewSession(u) EXCEPT !.notice = msg, !.metrics = m]]

NoSave == UNCHANGED <<worksheet, ws_tickers, cache_data, last_save, n_saves>>

At(s, b) == session[s].pc = "loaded" /\ session[s].w.button = b

\* a run in which no button was pressed
RunWithoutButton(s) ==
    /\ At(s, "none")
    /\ RenderRest(s, "none")
    /\ NoSave
    /\ OthersIdle

\* a check that lets every input through (not the code's)
AnyTickerAccepted(t) == FALSE

\* line 418: if not new_ticker
NoTicker(t) == t = ""

\* lines 417-441
SalvaTicker(s) ==
    /\ At(s, "Salva ticker")
    /\ LET w == session[s].w
       IN  IF NoTicker(w.new_ticker)
           THEN RenderRest(s, "error") /\ NoSave
           ELSE /\ \E ok \in BOOLEAN :
                      SaveCall(s, "save_all_tickers",
                               Upsert(session[s].all_tickers_df, session[s].username,
                                      w.new_ticker, w.new_cap, w.new_descr, w.new_active),
                               ok)
                /\ Rerun(s)
    /\ OthersIdle

\* lines 465-478
CancellaSelezionati(s) ==
    /\ At(s, "Cancella selezionati")
    /\ LET view   == UserTickers(session[s].all_tickers_df, session[s].username)
           to_del == Ticked(view, session[s].w.sel)
       IN  IF to_del = <<>>
           THEN RenderRest(s, "warning") /\ NoSave
           ELSE /\ \E ok \in BOOLEAN :
                      SaveCall(s, "save_all_tickers",
                               Kept(session[s].all_tickers_df, to_del), ok)
                /\ Rerun(s)
    /\ OthersIdle

\* lines 480-488
SalvaModifiche(s) ==
    /\ At(s, "Salva modifiche")
    /\ LET w    == session[s].w
           view == UserTickers(session[s].all_tickers_df, session[s].username)
           upd  == EditedTk(view, w.edit_pos, w.edit_cap, w.edit_act)
       IN  \E ok \in BOOLEAN :
               SaveCall(s, "save_all_tickers",
                        Merged(session[s].all_tickers_df, session[s].username, upd), ok)
    /\ Rerun(s)
    /\ OthersIdle

\* lines 607-634
RegistraOperazione(s) ==
    /\ At(s, "Registra Operazione")
    /\ LET w == session[s].w
       IN  IF w.op_ticker = Placeholder
           THEN RenderRest(s, "error") /\ NoSave
           ELSE /\ \E ok \in BOOLEAN :
                      SaveCall(s, "save_all_data",
                               Concat(session[s].all_data_df,
                                      NewRow(session[s].username, w)), ok)
                /\ Rerun(s)
    /\ OthersIdle

\* lines 654-694
ConfermaCancellazione(s) ==
    /\ At(s, "Conferma Cancellazione")
    /\ LET view == UserData(session[s].all_data_df, session[s].username)
           del  == Ticked(view, session[s].w.sel)
       IN  IF del = <<>>
           THEN RenderRest(s, "warning") /\ NoSave
           ELSE /\ \E ok \in BOOLEAN :
                      SaveCall(s, "save_all_data",
                               Drop(session[s].all_data_df,
                                    IndicesToDrop(session[s].all_data_df, del)), ok)
                /\ Rerun(s)
    /\ OthersIdle

\* ttl=60: the two entries, stored by the same run, are dropped when their
\* time is over
CacheExpires ==
    /\ cache_data.ops.hit
    /\ cache_data' = EmptyCache
    /\ UNCHANGED <<worksheet, ws_tickers, session, last_save, n_saves>>
    /\ OthersIdle

NextApp ==
    \/ \E s \in Sessions :
          \/ LoadTables(s)
          \/ RunWithoutButton(s)
          \/ SalvaTicker(s)
          \/ CancellaSelezionati(s)
          \/ SalvaModifiche(s)
          \/ RegistraOperazione(s)
          \/ ConfermaCancellazione(s)
    \/ CacheExpires

----------------------------------------------------------------------------
(* The worksheets and sessions the handlers are checked on                 *)

TkCell(u, tk, cap, descr, att, n) ==
    [username |-> u, ticker |-> tk, capitaleIniziale |-> cap,
     descrizione |-> descr, attivo |-> att, notes |-> n]

\* Operations worksheets: empty, or one operation of ann
AppSheets ==
    { <<>>,
      <<RawOp("ann", "2024-03-05", "SPY", "Incasso Premio", 2, 0, 0, 0, "")>> }

\* Tickers worksheets, each with unique (username, ticker) pairs
AppTickerSheets ==
    { <<>>,
      <<TkCell("ann", " spy ", 5, "etf", " Yes ", "")>>,
      <<TkCell("ann", "SPY", 5, "", "TRUE", ""),
        TkCell("bob", "SPY", 5, "", "TRUE", "")>>,
      \* no ticker an operation may be registered for
      <<TkCell("ann", "QQQ", 0, "", "TRUE", ""),
        TkCell("bob", "IWM", 5, "", "FALSE", "")>> }

NoSaveYet ==
    [fn |-> "none", by |-> "none", button |-> "none", loaded |-> <<>>,
     df |-> <<>>, ok |-> FALSE, ops_before |-> <<>>, tk_before |-> <<>>]

\* two authenticated sessions, of two users
InitApp ==
    /\ DeleteIdle
    /\ MetricsIdle
    /\ run = <<>>
    /\ worksheet \in AppSheets
    /\ ws_tickers \in AppTickerSheets
    /\ cache_data = EmptyCache
    /\ session = [s \in Sessions |-> NewSession(IF s = "s1" THEN "ann" ELSE "bob")]
    /\ last_save = NoSaveYet
    /\ n_saves = 0

SpecApp == InitApp /\ [][NextApp]_vars

----------------------------------------------------------------------------
(* app.py 205-516: one script run after the other of one session, section  *)
(* by section. run.calls collects the table functions of data_manager the  *)
(* current run has called.                                                 *)

\* what lines 205-206 find: the spreadsheet with both worksheets, no
\* spreadsheet, no worksheet "Foglio1", or no worksheet "Tickers" and none
\* that could be created
Stores == {"ok", "unreachable", "no_foglio1", "no_tickers"}

RunOnly == UNCHANGED <<delVars, metVars, appVars>>

\* lines 205-206: a handle is None without the key gcp_service_account or
\* when the worksheet cannot be opened
ConnectWorksheets ==
    /\ run.pc = "connect"
    /\ run' = [run EXCEPT
                  !.worksheet  = run.secrets.gcp /\ run.store \in {"ok", "no_tickers"},
                  !.ws_tickers = run.secrets.gcp /\ run.store \in {"ok", "no_foglio1"},
                  !.pc = "auth_init"]
    /\ RunOnly

\* lines 211-232: a missing key ends the run with st.error and st.stop()
InitAuthentication ==
    /\ run.pc = "auth_init"
    /\ run' = [run EXCEPT !.pc = IF run.secrets.credentials /\ run.secrets.cookies
                                 THEN "login" ELSE "stopped"]
    /\ RunOnly

\* lines 234-238: authenticator.login() leaves None, False or True in
\* st.session_state["authentication_status"]; a valid cookie keeps True
Login ==
    /\ run.pc = "login"
    /\ \E st \in {"none", "false", "true"} :
          run' = [run EXCEPT !.authentication_status = st, !.pc = "gate"]
    /\ RunOnly

\* a gate that only keeps rejected logins out (not the code's)
NotRejected(st) == st # "false"

\* line 379: if authentication_status
Authenticated(st) == st = "true"

\* lines 379-388 and 759-763
Gate ==
    /\ run.pc = "gate"
    /\ run' = [run EXCEPT !.pc =
                  IF Authenticated(run.authentication_status)
                  THEN (IF ~run.worksheet \/ ~run.ws_tickers THEN "stopped" ELSE "load")
                  ELSE "done"]
    /\ RunOnly

\* lines 390-398; has_tickers: user_tickers_df is not empty
Load ==
    /\ run.pc = "load"
    /\ \E b \in BOOLEAN :
          run' = [run EXCEPT !.calls = @ \cup {"get_all_data", "get_all_tickers"},
                             !.has_tickers = b, !.pc = "portafoglio"]
    /\ RunOnly

\* lines 405-488: the three buttons of the Portafoglio tab. A handler that
\* saves ends the run with st.rerun(); a rejected input shows a message and
\* the script goes on. The two buttons of the editor exist when the user
\* has tickers, and "Salva modifiche" always saves.
Portafoglio ==
    /\ run.pc = "portafoglio"
    /\ \/ /\ run.button = "none"
          /\ run' = [run EXCEPT !.pc = "panoramica"]
       \/ /\ \/ run.button = "Salva ticker"
             \/ run.button = "Cancella selezionati" /\ run.has_tickers
          /\ \E valid \in BOOLEAN :
                run' = [run EXCEPT
                           !.calls = IF valid THEN @ \cup {"save_all_tickers"} ELSE @,
                           !.pc = IF valid THEN "rerun" ELSE "panoramica"]
       \/ /\ run.button = "Salva modifiche" /\ run.has_tickers
          /\ run' = [run EXCEPT !.calls = @ \cup {"save_all_tickers"}, !.pc = "rerun"]
       \/ /\ run.button \in {"Cancella selezionati", "Salva modifiche"}
          /\ ~run.has_tickers
          /\ run' = [run EXCEPT !.pc = "panoramica"]
    /\ RunOnly

\* lines 492-502: the argument of rename at line 502, {{...}}, is a set
\* display with a dict as its element; its evaluation raises TypeError
\* (unhashable type), whatever the tables hold. Nothing below line 502 is
\* executed: the Journal and Metriche tabs (lines 517-757) are not reached.
Panoramica ==
    /\ run.pc = "panoramica"
    /\ run' = [run EXCEPT !.pc = "raised"]
    /\ RunOnly

\* the next run of the session: after st.rerun() at once, otherwise with the
\* next interaction; a press of a button is sent with it
NextRun ==
    /\ run.pc \in {"rerun", "raised", "stopped", "done"}
    /\ \E b \in {"none", "Salva ticker", "Cancella selezionati", "Salva modifiche"} :
          run' = [run EXCEPT !.pc = "connect", !.calls = {},
                             !.button = IF run.pc = "rerun" THEN "none" ELSE b]
    /\ RunOnly

NextRunStep ==
    \/ ConnectWorksheets
    \/ InitAuthentication
    \/ Login
    \/ Gate
    \/ Load
    \/ Portafoglio
    \/ Panoramica
    \/ NextRun

\* the first run of a session: nobody is logged in, no button is pressed
InitRun ==
    /\ DeleteIdle
    /\ MetricsIdle
    /\ worksheet = <<>>
    /\ ws_tickers = <<>>
    /\ cache_data = <<>>
    /\ session = <<>>
    /\ last_save = <<>>
    /\ n_saves = 0
    /\ \E g \in BOOLEAN, c \in BOOLEAN, k \in BOOLEAN, st \in Stores :
          run = [secrets |-> [gcp |-> g, credentials |-> c, cookies |-> k],
                 store |-> st, worksheet |-> FALSE, ws_tickers |-> FALSE,
                 authentication_status |-> "none", button |-> "none",
                 has_tickers |-> FALSE, calls |-> {}, pc |-> "connect"]

SpecRun == InitRun /\ [][NextRunStep]_vars

\* the positions of the operations of ticker tk
RowsOf(tk) == {i \in 1..Len(user_data_df) : user_data_df[i].ticker = tk}

\* the dates of the operations of ticker tk, missing dates left out
DatesOf(tk) == {user_data_df[i].date : i \in RowsOf(tk)} \ {NaT}

\* n whole days lie between the timestamps a and b
WholeDays(a, b, n) ==
    /\ n * 1440 <= DateRank(b) - DateRank(a)
    /\ DateRank(b) - DateRank(a) < (n + 1) * 1440

\* C19: in every row of the per-ticker table the five counts are the
\* numbers of the ticker's operations, of those of type "Incasso Premio",
\* of those of type "Reinvestimento Premio", of those with btdStandard > 0
\* and of those with btdBoost > 0; the first and last movement are the
\* earliest and the latest date of the ticker's operations and the active
\* days are the whole days between them, never negative (0 when no
\* operation of the ticker has a date, missing when it has no operation).
C19_CountsAndSpan ==
    KpiComputed =>
        \A i \in 1..Len(kpi_ticker) :
            LET r  == kpi_ticker[i]
                R  == RowsOf(r.Asset)
                D  == DatesOf(r.Asset)
            IN  /\ r.NOperazioni = Cardinality(R)
                /\ r.NIncassi =
                      Cardinality({j \in R : user_data_df[j].type = "Incasso Premio"})
                /\ r.NReinvestimenti =
                      Cardinality({j \in R : user_data_df[j].type = "Reinvestimento Premio"})
                /\ r.NBTDStd = Cardinality({j \in R : user_data_df[j].btdStandard > 0})
                /\ r.NBTDBoost = Cardinality({j \in R : user_data_df[j].btdBoost > 0})
                /\ IF D # {}
                   THEN /\ r.PrimoMovimento \in D
                        /\ r.UltimoMovimento \in D
                        /\ \A d \in D : /\ DateRank(r.PrimoMovimento) <= DateRank(d)
                                        /\ DateRank(d) <= DateRank(r.UltimoMovimento)
                        /\ \E n \in 0..366 :
                              /\ r.GiorniAttivi = <<n>>
                              /\ WholeDays(r.PrimoMovimento, r.UltimoMovimento, n)
                   ELSE /\ r.PrimoMovimento = NaT
                        /\ r.UltimoMovimento = NaT
                        /\ r.GiorniAttivi = (IF R = {} THEN NA ELSE <<0>>)

\* a ticker with two operations on two calendar days less than a whole
\* day apart, one of them a BTD with a standard amount, and a ticker whose
\* only operation is a BTD without standard amount and without date
C19_Witness ==
    /\ KpiComputed
    /\ \E i \in 1..Len(kpi_ticker) :
          /\ kpi_ticker[i].NOperazioni = 2
          /\ kpi_ticker[i].NReinvestimenti = 1
          /\ kpi_ticker[i].NBTDStd = 1
          /\ kpi_ticker[i].PrimoMovimento # kpi_ticker[i].UltimoMovimento
          /\ kpi_ticker[i].GiorniAttivi = <<0>>
    /\ \E i \in 1..Len(kpi_ticker) :
          /\ kpi_ticker[i].NOperazioni = 1
          /\ kpi_ticker[i].NBTDStd = 0
          /\ kpi_ticker[i].NBTDBoost = 1
          /\ kpi_ticker[i].PrimoMovimento = NaT

\* the tickers the owner has configured
Configured == {user_tickers_df[i].ticker : i \in 1..Len(user_tickers_df)}

\* the positions of the operations on a ticker the owner has not configured
Unconfigured == {i \in 1..Len(user_data_df) : user_data_df[i].ticker \notin Configured}

----------------------------------------------------------------------------
(* The worksheets, the cache and the handlers: properties                  *)

\* the typing of get_all_data applied to a table in memory: a string stays
\* the string it is, a date keeps its day
DayOf(ts) == IF ts = NaT THEN NaT ELSE Ts(ts.y, ts.m, ts.d, 0)

NormalizedOps(df) ==
    [i \in 1..Len(df) |->
        [df[i] EXCEPT !.ticker = UpperStrip(df[i].ticker),
                      !.type = Strip(df[i].type),
                      !.date = DayOf(df[i].date)]]

NormalizedTickers(df) ==
    [i \in 1..Len(df) |-> [df[i] EXCEPT !.ticker = UpperStrip(df[i].ticker)]]

\* C11 as stated: a table handed to save_all_data / save_all_tickers, once
\* written, is read back by get_all_data / get_all_tickers equal to itself
\* after normalization, empty notes and missing dates included.
C11_RoundTrip ==
    /\ (last_save.fn = "save_all_data" /\ last_save.ok) =>
           NormalizedOps(GetAllData(worksheet)) = NormalizedOps(last_save.df)
    /\ (last_save.fn = "save_all_tickers" /\ last_save.ok) =>
           NormalizedTickers(GetAllTickers(ws_tickers)) = NormalizedTickers(last_save.df)

\* C12 as stated: once a call of save_all_data or save_all_tickers has
\* returned, completed or failed, no table stored in the cache before that
\* call is left to be served.
C12_CacheInvalidatedAfterEveryWrite ==
    /\ cache_data.ops.hit => cache_data.ops.at = n_saves
    /\ cache_data.tk.hit => cache_data.tk.at = n_saves

\* the (username, ticker) pairs of a ticker table, row by row
Pairs(df) == [i \in 1..Len(df) |-> <<df[i].username, df[i].ticker>>]

UniquePairs(df) ==
    \A i, j \in 1..Len(df) : i # j => Pairs(df)[i] # Pairs(df)[j]

\* C13: the (username, ticker) pairs of the Tickers table stay unique under
\* every sequence of "Salva ticker", "Salva modifiche" and "Cancella
\* selezionati"; "Salva ticker" on a pair the table holds keeps the rows
\* and their order and changes only capital, description and active flag
\* of that pair, and adds a row only for a pair the table does not hold.
C13_TickerPairsUnique ==
    /\ UniquePairs(GetAllTickers(ws_tickers))
    /\ last_save.fn = "save_all_tickers" => UniquePairs(last_save.df)
    /\ last_save.button = "Salva ticker" =>
          \/ /\ Pairs(last_save.df) = Pairs(last_save.loaded)
             /\ \A i \in 1..Len(last_save.df) :
                   \/ last_save.df[i] = last_save.loaded[i]
                   \/ /\ last_save.df[i].username = session[last_save.by].username
                      /\ last_save.df[i].notes = last_save.loaded[i].notes
          \/ /\ Len(last_save.df) = Len(last_save.loaded) + 1
             /\ SubSeq(last_save.df, 1, Len(last_save.loaded)) = last_save.loaded
             /\ \A i \in 1..Len(last_save.loaded) :
                   Pairs(last_save.loaded)[i] # Pairs(last_save.df)[Len(last_save.df)]

\* "Salva ticker" on a pair of a table of two rows: the row is changed in
\* place and the write completed
C13_Witness ==
    /\ last_save.button = "Salva ticker"
    /\ last_save.ok
    /\ Len(last_save.loaded) = 2
    /\ Pairs(last_save.df) = Pairs(last_save.loaded)
    /\ last_save.df # last_save.loaded
    /\ GetAllTickers(ws_tickers) # last_save.loaded

\* a submission the handlers reject: no ticker typed, the placeholder left
\* in the ticker menu, no row ticked
Rejected(s) ==
    /\ session[s].pc = "loaded"
    /\ \/ session[s].w.button = "Salva ticker" /\ session[s].w.new_ticker = ""
       \/ session[s].w.button = "Registra Operazione"
          /\ session[s].w.op_ticker = Placeholder
       \/ session[s].w.button \in {"Cancella selezionati", "Conferma Cancellazione"}
          /\ session[s].w.sel = {}

\* C14: the handler of a rejected submission writes to neither worksheet,
\* calls no save function, leaves the cache as it is and shows an error or
\* a warning; the session is then ready for the next submission.
C14_ValidationNoStateChange ==
    [][\A s \in Sessions :
          (Rejected(s) /\ session'[s] # session[s]) =>
              /\ worksheet' = worksheet
              /\ ws_tickers' = ws_tickers
              /\ cache_data' = cache_data
              /\ n_saves' = n_saves
              /\ last_save' = last_save
              /\ session'[s].notice \in {"error", "warning"}
              /\ session'[s].pc = "idle"]_vars

\* one session was shown the error, the other the warning, and nothing has
\* been saved
C14_Witness ==
    /\ session["s1"].notice = "error"
    /\ session["s2"].notice = "warning"
    /\ session["s1"].pc = "idle"
    /\ session["s2"].pc = "idle"
    /\ n_saves = 0
    /\ worksheet # <<>>

\* the amount groups of an operation row that are not zero
NonZeroGroups(r) ==
    {g \in {"Incasso Premio", "Reinvestimento Premio", "Investimento BTD"} :
        \/ g = "Incasso Premio" /\ r.premioIncassato # 0
        \/ g = "Reinvestimento Premio" /\ r.premioReinvestito # 0
        \/ g = "Investimento BTD" /\ (r.btdStandard # 0 \/ r.btdBoost # 0)}

\* C17 as stated: the row the operation form appends has no negative
\* amount and exactly one amount group that is not zero, the group of its
\* type.
C17_FormRowOneGroup ==
    last_save.button = "Registra Operazione" =>
        LET r == last_save.df[Len(last_save.df)]
        IN  /\ r.premioIncassato >= 0
            /\ r.premioReinvestito >= 0
            /\ r.btdStandard >= 0
            /\ r.btdBoost >= 0
            /\ NonZeroGroups(r) = {r.type}

\* C18: a completed write of the operation form stores the table its own
\* run loaded plus the new row, whatever the worksheet held at that moment:
\* rows written by another session after the load are gone, nothing is
\* merged, the Tickers worksheet is untouched and the session is shown the
\* success message.
C18_LastWriteWins ==
    [][\A s \in Sessions :
          ( /\ At(s, "Registra Operazione")
            /\ n_saves' = n_saves + 1
            /\ last_save'.by = s
            /\ last_save'.ok ) =>
              LET F == session[s].all_data_df
                  T == GetAllData(worksheet')
              IN  /\ Len(T) = Len(F) + 1
                  /\ SubSeq(T, 1, Len(F)) = GetAllData(SaveAllData(F))
                  /\ T[Len(T)].username = session[s].username
                  /\ T[Len(T)].ticker = UpperStrip(session[s].w.op_ticker)
                  /\ T[Len(T)].type = session[s].w.op_type
                  /\ ws_tickers' = ws_tickers
                  /\ session'[s].notice = "success"]_vars

\* session s2 wrote after session s1 had added a row that s2 had not
\* loaded: the row of s1 is no longer in the worksheet
C18_Witness ==
    /\ last_save.button = "Registra Operazione"
    /\ last_save.by = "s2"
    /\ last_save.ok
    /\ Len(last_save.ops_before) = Len(last_save.loaded) + 1
    /\ last_save.ops_before[Len(last_save.ops_before)].username = "ann"
    /\ last_save.ops_before[Len(last_save.ops_before)] \notin Range(worksheet)
    /\ Len(worksheet) = Len(last_save.loaded) + 1
    /\ worksheet[Len(worksheet)].username = "bob"

\* no handler of the Portafoglio tab writes to the Operations worksheet:
\* removing a ticker configuration leaves the operations on that ticker
\* where they are
TickerHandlersKeepOperations ==
    [][\A s \in Sessions :
          ( /\ session[s].pc = "loaded"
            /\ session[s].w.button \in
                  {"Salva ticker", "Cancella selezionati", "Salva modifiche"}
            /\ session'[s] # session[s] ) => worksheet' = worksheet]_vars

\* C22 as stated: the session that made the last save call is shown the
\* success notice only if the write of that call completed.
C22_SuccessOnlyAfterCompletedWrite ==
    ( /\ last_save.fn # "none"
      /\ session[last_save.by].notice = "success" ) => last_save.ok

\* ticker tk is one of user's rows in the snapshot, active and funded
Registrable(tk_df, user, tk) ==
    \E i \in 1..Len(tk_df) :
        /\ tk_df[i].username = user
        /\ tk_df[i].ticker = tk
        /\ tk_df[i].attivo = TRUE
        /\ tk_df[i].capitaleIniziale > 0

\* C23: the operation form hands a table to save_all_data only with one
\* row appended whose owner is the submitting user and whose ticker is, in
\* the Tickers table loaded by that run, a row of that user with attivo true
\* and capitaleIniziale > 0; a run whose snapshot holds no such ticker has
\* no submit button to press.
C23_OnlyRegistrableTickers ==
    [][\A s \in Sessions :
          /\ ( At(s, "Registra Operazione") /\ n_saves' = n_saves + 1
               /\ last_save'.by = s ) =>
                 LET df  == last_save'.df
                     row == df[Len(df)]
                 IN  /\ Len(df) = Len(session[s].all_data_df) + 1
                     /\ row.username = session[s].username
                     /\ Registrable(session[s].all_tickers_df,
                                    session[s].username, row.ticker)
          /\ session'[s].pc = "loaded" /\ session'[s].w.button = "Registra Operazione" =>
                 \E tk \in {"SPY", "QQQ", "IWM"} :
                     Registrable(session'[s].all_tickers_df, session'[s].username, tk)
      ]_vars

\* an operation was written for the one registrable ticker of its owner,
\* whose snapshot held another owner's rows too
C23_Witness ==
    /\ last_save.button = "Registra Operazione"
    /\ last_save.ok
    /\ last_save.by = "s2"
    /\ Len(last_save.df) = Len(last_save.loaded) + 1
    /\ last_save.df[Len(last_save.df)].ticker = "SPY"
    /\ Len(last_save.tk_before) = 2

\* the rows of a table that do not belong to user, in the table's order
Others(rows, user) == SelectSeq(rows, LAMBDA r : r.username # user)

\* the Operations worksheet as the data model describes its rows: the date
\* at day precision, ticker and type without case and blanks, every text as
\* it is stored
PersistedOps(ws) ==
    [i \in 1..Len(ws) |->
        [ws[i] EXCEPT !.date = DayOf(ToDatetime(ws[i].date)),
                      !.ticker = UpperStrip(ws[i].ticker),
                      !.type = Strip(ws[i].type)]]

\* the Tickers worksheet in the same way, the active flag as a boolean
PersistedTickers(ws) ==
    [i \in 1..Len(ws) |->
        [ws[i] EXCEPT !.ticker = UpperStrip(ws[i].ticker),
                      !.attivo = ParseAttivo(ws[i].attivo)]]

\* session s calls a save function with the tables it loaded being the ones
\* the worksheets hold
SequentialSave(s) ==
    /\ session[s].pc = "loaded"
    /\ session[s].all_data_df = GetAllData(worksheet)
    /\ session[s].all_tickers_df = GetAllTickers(ws_tickers)
    /\ n_saves' = n_saves + 1
    /\ last_save'.by = s

\* C21 as stated: a mutation by a session whose snapshot is the persisted
\* table leaves every persisted row of the other owners as it was, in both
\* worksheets.
C21_OtherOwnersRowsUnchanged ==
    [][\A s \in Sessions :
          SequentialSave(s) =>
              /\ Others(PersistedOps(worksheet'), session[s].username)
                    = Others(PersistedOps(worksheet), session[s].username)
              /\ Others(PersistedTickers(ws_tickers'), session[s].username)
                    = Others(PersistedTickers(ws_tickers), session[s].username)
      ]_vars

\* the same mutations seen through the loaders: what get_all_data and
\* get_all_tickers return for the other owners is the same before and after
OthersRowsReadBackUnchanged ==
    [][\A s \in Sessions :
          SequentialSave(s) =>
              /\ Others(NormalizedOps(GetAllData(worksheet')), session[s].username)
                    = Others(NormalizedOps(GetAllData(worksheet)), session[s].username)
              /\ Others(GetAllTickers(ws_tickers'), session[s].username)
                    = Others(GetAllTickers(ws_tickers), session[s].username)
      ]_vars

----------------------------------------------------------------------------
(* The script run: properties                                              *)

TableFunctions ==
    {"get_all_data", "get_all_tickers", "save_all_data", "save_all_tickers"}

\* C15: in every script run a table function (get_all_data,
\* get_all_tickers, save_all_data, save_all_tickers) is called only when
\* the credentials and cookies keys were found, the authentication status
\* of the session is true and both worksheet handles are there; a run
\* halted by st.stop() and a run of an unauthenticated session have called
\* none of them.
C15_AccessGated ==
    /\ run.calls \subseteq TableFunctions
    /\ run.calls # {} =>
          /\ run.secrets.credentials
          /\ run.secrets.cookies
          /\ run.authentication_status = "true"
          /\ run.worksheet
          /\ run.ws_tickers
    /\ run.pc \in {"stopped", "done"} => run.calls = {}

\* an authenticated run has loaded both tables and rewritten the tickers
C15_Witness ==
    /\ run.pc = "rerun"
    /\ run.calls = {"get_all_data", "get_all_tickers", "save_all_tickers"}

\* C16 as stated: an authenticated run with both worksheets connected and no
\* button pressed goes through the Portafoglio, Journal and Metriche
\* sections without an unhandled exception.
C16_NoButtonRunCompletes ==
    ( /\ run.authentication_status = "true"
      /\ run.worksheet
      /\ run.ws_tickers
      /\ run.button = "none" ) => run.pc # "raised"

====
